---- MODULE Spec2Model ----
(***************************************************************************)
(* Model of Modules/_testcapi/ownedbuffer.c: the testOwnedBuf exporter     *)
(* (immutable_references / exclusively_exported bookkeeping behind the     *)
(* buffer protocol) and its two consumers, testSimpleImmutableView and     *)
(* testSimpleMutableView.                                                  *)
(*                                                                         *)
(* One owner object is alive at a time; when it has been deallocated a new *)
(* one can be constructed.  Consumers are MaxViews Py_buffer holders: a    *)
(* holder is either a plain Py_buffer of a C consumer ("raw") or the view  *)
(* field of one of the two wrapper objects ("immview", "mutview").         *)
(***************************************************************************)
EXTENDS Integers, Sequences, FiniteSets

\* ------------------------------------------------------------------ bounds
\* Number of Py_buffer holders (consumers) that can exist at once.
MaxViews == 2
\* Cap on immutable_references (Py_ssize_t in the code, so unbounded here).
MaxRefs == 3
\* Size of the exported storage; the code allocates 1000 bytes (line 26),
\* the model keeps the same layout on a shorter buffer.
BufLen == 2
\* Largest byte value a client writes.
MaxByte == 1

Slots == 1..MaxViews
Bytes == 0..MaxByte

\* ------------------------------------------------------------- vocabulary
PyBUF_EXCLUSIVE == "PyBUF_EXCLUSIVE"
PyBUF_IMMUTABLE == "PyBUF_IMMUTABLE"
PyBUF_WRITABLE == "PyBUF_WRITABLE"
\* A flags argument is a set of flag bits.
AllFlags == SUBSET {PyBUF_EXCLUSIVE, PyBUF_IMMUTABLE, PyBUF_WRITABLE}

NoError == "none"
AlreadyExclusive == "Buffer is already exclusively exported."
ConflictingExclusive == "Buffer has immutable exports and cannot be exclusively exported."
InvalidMode == "exactly one of PyBUF_EXCLUSIVE or PyBUF_IMMUTABLE must be specified."
NotWritable == "Object is not writable."
NotContiguous == "buffer is not contiguous"
OutOfRange == "index out of range"
NoMemory == "MemoryError"

VARIABLES
    immutable_references,  \* testOwnedBufObject.immutable_references
    exclusively_exported,  \* testOwnedBufObject.exclusively_exported (0 or 1)
    buf,                   \* testOwnedBufObject.buf, a sequence of bytes
    ob_refcnt,             \* reference count of the owner object
    owner,                 \* "alive" | "freed": whether buf and the object exist
    ownerRef,              \* the client still holds its own reference to the owner
    views,                 \* the Py_buffer holders
    dealloc_diag,          \* the last testownedbuf_dealloc printed the SystemError
    aborted,               \* an assert failed: the process is gone
    last,                  \* the last call: what was asked, what it returned
    frames                 \* per thread: where it stands inside getbuffer or
                           \* releasebuffer, and the flags it was called with

vars == <<immutable_references, exclusively_exported, buf, ob_refcnt, owner,
          ownerRef, views, dealloc_diag, aborted, last, frames>>

\* A thread that is inside neither function.
NoFrame == [pc |-> "idle", flags |-> {}]

\* A Py_buffer that exports nothing: what tp_alloc's zeroed memory holds.
NoView == [kind |-> "raw", obj |-> FALSE, readonly |-> 0]

\* arg: the index and value of a __setitem__ call, the bytes a __bytes__
\* call returned, <<>> for every other call.
CallArg(op, flags, ret, err, slot, invoked, arg) ==
    [op |-> op, flags |-> flags, ret |-> ret, err |-> err,
     imm0 |-> immutable_references, excl0 |-> exclusively_exported,
     slot |-> slot, invoked |-> invoked, arg |-> arg]

Call(op, flags, ret, err, slot, invoked) ==
    CallArg(op, flags, ret, err, slot, invoked, <<>>)

\* --------------------------------------------------- code outside the file
\* Assertions are compiled in: parts.h, which the file includes first,
\* undefines NDEBUG.
NDEBUG == FALSE

\* PyBuffer_FillInfo: refuses a writable request on a read-only export,
\* otherwise fills the view and takes a new reference to the exporter.
PyBuffer_FillInfo(readonly, flags) ==
    IF PyBUF_WRITABLE \in flags /\ readonly = 1
    THEN [ret |-> -1, err |-> NotWritable]
    ELSE [ret |-> 0, err |-> NoError]

\* ------------------------------------------------------------ the exporter
\* Variants of testownedbuf_getbuffer, each with one slip.
\* The line-64 test made only for exclusive requests.
getbuffer_exclusive_only_blocks_exclusive(imm, excl, flags) ==
    LET exclusive_requested == IF PyBUF_EXCLUSIVE \in flags THEN 1 ELSE 0
        immutable_requested == IF PyBUF_IMMUTABLE \in flags THEN 1 ELSE 0
        fail(e) == [ret |-> -1, err |-> e, imm |-> imm, excl |-> excl, readonly |-> 0]
    IN  IF excl # 0 /\ exclusive_requested = 1 THEN fail(AlreadyExclusive)
        ELSE IF PyBUF_EXCLUSIVE \in flags /\ imm > 0 THEN fail(ConflictingExclusive)
        ELSE IF exclusive_requested = immutable_requested THEN fail(InvalidMode)
        ELSE LET readonly == IF exclusive_requested = 1 THEN 0 ELSE 1
                 excl1 == IF exclusive_requested = 1 THEN 1 ELSE excl
                 imm1 == IF immutable_requested = 1 THEN imm + 1 ELSE imm
                 fill == PyBuffer_FillInfo(readonly, flags)
             IN  [ret |-> fill.ret, err |-> fill.err, imm |-> imm1,
                  excl |-> excl1, readonly |-> readonly]

\* The flag test of line 76 moved in front of the two state tests.
getbuffer_mode_checked_first(imm, excl, flags) ==
    LET exclusive_requested == IF PyBUF_EXCLUSIVE \in flags THEN 1 ELSE 0
        immutable_requested == IF PyBUF_IMMUTABLE \in flags THEN 1 ELSE 0
        fail(e) == [ret |-> -1, err |-> e, imm |-> imm, excl |-> excl, readonly |-> 0]
    IN  IF exclusive_requested = immutable_requested THEN fail(InvalidMode)
        ELSE IF excl # 0 THEN fail(AlreadyExclusive)
        ELSE IF PyBUF_EXCLUSIVE \in flags /\ imm > 0 THEN fail(ConflictingExclusive)
        ELSE LET readonly == IF exclusive_requested = 1 THEN 0 ELSE 1
                 excl1 == IF exclusive_requested = 1 THEN 1 ELSE excl
                 imm1 == IF immutable_requested = 1 THEN imm + 1 ELSE imm
                 fill == PyBuffer_FillInfo(readonly, flags)
             IN  [ret |-> fill.ret, err |-> fill.err, imm |-> imm1,
                  excl |-> excl1, readonly |-> readonly]

\* The line-70 test left out.
getbuffer_no_conflict_check(imm, excl, flags) ==
    LET exclusive_requested == IF PyBUF_EXCLUSIVE \in flags THEN 1 ELSE 0
        immutable_requested == IF PyBUF_IMMUTABLE \in flags THEN 1 ELSE 0
        fail(e) == [ret |-> -1, err |-> e, imm |-> imm, excl |-> excl, readonly |-> 0]
    IN  IF excl # 0 THEN fail(AlreadyExclusive)
        ELSE IF exclusive_requested = immutable_requested THEN fail(InvalidMode)
        ELSE LET readonly == IF exclusive_requested = 1 THEN 0 ELSE 1
                 excl1 == IF exclusive_requested = 1 THEN 1 ELSE excl
                 imm1 == IF immutable_requested = 1 THEN imm + 1 ELSE imm
                 fill == PyBuffer_FillInfo(readonly, flags)
             IN  [ret |-> fill.ret, err |-> fill.err, imm |-> imm1,
                  excl |-> excl1, readonly |-> readonly]

\* The line-76 test written with || instead of ^: only "neither" is refused.
getbuffer_both_flags_accepted(imm, excl, flags) ==
    LET exclusive_requested == IF PyBUF_EXCLUSIVE \in flags THEN 1 ELSE 0
        immutable_requested == IF PyBUF_IMMUTABLE \in flags THEN 1 ELSE 0
        fail(e) == [ret |-> -1, err |-> e, imm |-> imm, excl |-> excl, readonly |-> 0]
    IN  IF excl # 0 THEN fail(AlreadyExclusive)
        ELSE IF PyBUF_EXCLUSIVE \in flags /\ imm > 0 THEN fail(ConflictingExclusive)
        ELSE IF exclusive_requested = 0 /\ immutable_requested = 0 THEN fail(InvalidMode)
        ELSE LET readonly == IF exclusive_requested = 1 THEN 0 ELSE 1
                 excl1 == IF exclusive_requested = 1 THEN 1 ELSE excl
                 imm1 == IF immutable_requested = 1 THEN imm + 1 ELSE imm
                 fill == PyBuffer_FillInfo(readonly, flags)
             IN  [ret |-> fill.ret, err |-> fill.err, imm |-> imm1,
                  excl |-> excl1, readonly |-> readonly]

\* The line-70 test made without looking at the flags: readers block readers.
getbuffer_readers_block_readers(imm, excl, flags) ==
    LET exclusive_requested == IF PyBUF_EXCLUSIVE \in flags THEN 1 ELSE 0
        immutable_requested == IF PyBUF_IMMUTABLE \in flags THEN 1 ELSE 0
        fail(e) == [ret |-> -1, err |-> e, imm |-> imm, excl |-> excl, readonly |-> 0]
    IN  IF excl # 0 THEN fail(AlreadyExclusive)
        ELSE IF imm > 0 THEN fail(ConflictingExclusive)
        ELSE IF exclusive_requested = immutable_requested THEN fail(InvalidMode)
        ELSE LET readonly == IF exclusive_requested = 1 THEN 0 ELSE 1
                 excl1 == IF exclusive_requested = 1 THEN 1 ELSE excl
                 imm1 == IF immutable_requested = 1 THEN imm + 1 ELSE imm
                 fill == PyBuffer_FillInfo(readonly, flags)
             IN  [ret |-> fill.ret, err |-> fill.err, imm |-> imm1,
                  excl |-> excl1, readonly |-> readonly]

\* The increment of line 87 left out.
getbuffer_forgets_increment(imm, excl, flags) ==
    LET exclusive_requested == IF PyBUF_EXCLUSIVE \in flags THEN 1 ELSE 0
        immutable_requested == IF PyBUF_IMMUTABLE \in flags THEN 1 ELSE 0
        fail(e) == [ret |-> -1, err |-> e, imm |-> imm, excl |-> excl, readonly |-> 0]
    IN  IF excl # 0 THEN fail(AlreadyExclusive)
        ELSE IF PyBUF_EXCLUSIVE \in flags /\ imm > 0 THEN fail(ConflictingExclusive)
        ELSE IF exclusive_requested = immutable_requested THEN fail(InvalidMode)
        ELSE LET readonly == IF exclusive_requested = 1 THEN 0 ELSE 1
                 excl1 == IF exclusive_requested = 1 THEN 1 ELSE excl
                 imm1 == imm
                 fill == PyBuffer_FillInfo(readonly, flags)
             IN  [ret |-> fill.ret, err |-> fill.err, imm |-> imm1,
                  excl |-> excl1, readonly |-> readonly]

\* testownedbuf_getbuffer: the result of one call made with the counters
\* imm and excl: return value, error, the counters afterwards, and the
\* readonly field handed to PyBuffer_FillInfo.
testownedbuf_getbuffer(imm, excl, flags) ==
    LET exclusive_requested == IF PyBUF_EXCLUSIVE \in flags THEN 1 ELSE 0
        immutable_requested == IF PyBUF_IMMUTABLE \in flags THEN 1 ELSE 0
        fail(e) == [ret |-> -1, err |-> e, imm |-> imm, excl |-> excl, readonly |-> 0]
    IN  IF excl # 0 THEN fail(AlreadyExclusive)
        ELSE IF PyBUF_EXCLUSIVE \in flags /\ imm > 0 THEN fail(ConflictingExclusive)
        ELSE IF exclusive_requested = immutable_requested THEN fail(InvalidMode)
        ELSE LET readonly == IF exclusive_requested = 1 THEN 0 ELSE 1
                 excl1 == IF exclusive_requested = 1 THEN 1 ELSE excl
                 imm1 == IF immutable_requested = 1 THEN imm + 1 ELSE imm
                 fill == PyBuffer_FillInfo(readonly, flags)
             IN  [ret |-> fill.ret, err |-> fill.err, imm |-> imm1,
                  excl |-> excl1, readonly |-> readonly]

\* Variants of testownedbuf_releasebufffer.
\* The counter cleared instead of decremented.
releasebuffer_clears_counter(imm, excl) ==
    IF ~NDEBUG /\ ((excl # 0) <=> (imm > 0))
    THEN [aborted |-> TRUE, imm |-> imm, excl |-> excl]
    ELSE LET excl1 == IF excl # 0 THEN 0 ELSE excl
             imm1 == IF imm > 0 THEN 0 ELSE imm
         IN  [aborted |-> FALSE, imm |-> imm1, excl |-> excl1]

\* No assert, and the decrement made whenever no exclusive export is live.
releasebuffer_unchecked(imm, excl) ==
    LET excl1 == IF excl # 0 THEN 0 ELSE excl
        imm1 == IF excl # 0 THEN imm ELSE imm - 1
    IN  [aborted |-> FALSE, imm |-> imm1, excl |-> excl1]

\* exclusively_exported never cleared.
releasebuffer_keeps_exclusive(imm, excl) ==
    IF ~NDEBUG /\ ((excl # 0) <=> (imm > 0))
    THEN [aborted |-> TRUE, imm |-> imm, excl |-> excl]
    ELSE LET imm1 == IF imm > 0 THEN imm - 1 ELSE imm
         IN  [aborted |-> FALSE, imm |-> imm1, excl |-> excl]

\* The decrement made on every release, the exclusive one included.
releasebuffer_always_decrements(imm, excl) ==
    IF ~NDEBUG /\ ((excl # 0) <=> (imm > 0))
    THEN [aborted |-> TRUE, imm |-> imm, excl |-> excl]
    ELSE LET excl1 == IF excl # 0 THEN 0 ELSE excl
         IN  [aborted |-> FALSE, imm |-> imm - 1, excl |-> excl1]

\* testownedbuf_releasebufffer: the counters after one call, or the abort
\* of the assert.
testownedbuf_releasebufffer(imm, excl) ==
    IF ~NDEBUG /\ ((excl # 0) <=> (imm > 0))
    THEN [aborted |-> TRUE, imm |-> imm, excl |-> excl]
    ELSE LET excl1 == IF excl # 0 THEN 0 ELSE excl
             imm1 == IF imm > 0 THEN imm - 1 ELSE imm
         IN  [aborted |-> FALSE, imm |-> imm1, excl |-> excl1]

\* Variant of testownedbuf_dealloc: only the exclusive export is tested.
dealloc_ignores_immutable(imm, excl) ==
    [diag |-> (excl # 0), freed |-> TRUE]

\* testownedbuf_dealloc: whether the diagnostic is printed and whether the
\* storage and the object are freed.
testownedbuf_dealloc(imm, excl) ==
    [diag |-> (excl # 0 \/ imm > 0), freed |-> TRUE]

\* PyBuffer_Release: a view whose obj is NULL is left alone; otherwise the
\* exporter's releasebuffer runs, obj is cleared and the reference dropped.
PyBuffer_Release(view, imm, excl) ==
    IF ~view.obj
    THEN [view |-> view, imm |-> imm, excl |-> excl, aborted |-> FALSE, decref |-> 0]
    ELSE LET r == testownedbuf_releasebufffer(imm, excl)
         IN  [view |-> [view EXCEPT !.obj = FALSE], imm |-> r.imm, excl |-> r.excl,
              aborted |-> r.aborted, decref |-> IF r.aborted THEN 0 ELSE 1]

\* ------------------------------------------------------------ the wrappers
\* Variant of the wrapper's dealloc: the exporter's releasebuffer is called
\* directly, whatever view.obj says.
dealloc_releases_unconditionally(view, imm, excl) ==
    LET r == testownedbuf_releasebufffer(imm, excl)
    IN  [view |-> [view EXCEPT !.obj = FALSE], imm |-> r.imm, excl |-> r.excl,
         aborted |-> r.aborted, decref |-> IF r.aborted \/ ~view.obj THEN 0 ELSE 1]

testSimpleImmutableViewObject_dealloc(view, imm, excl) ==
    PyBuffer_Release(view, imm, excl)

testSimpleMutableViewObject_dealloc(view, imm, excl) ==
    PyBuffer_Release(view, imm, excl)

WrapperDealloc(kind, view, imm, excl) ==
    IF kind = "immview"
    THEN testSimpleImmutableViewObject_dealloc(view, imm, excl)
    ELSE testSimpleMutableViewObject_dealloc(view, imm, excl)

\* Variant of the FromObject body: on the contiguity failure it returns
\* NULL at once, without PyBuffer_Release and without Py_DECREF(self).
fromobject_returns_early(kind, flags, contiguous, imm, excl) ==
    LET g == testownedbuf_getbuffer(imm, excl, flags)
        got == [kind |-> kind, obj |-> TRUE, readonly |-> g.readonly]
    IN  IF g.ret < 0
        THEN [ret |-> -1, err |-> g.err, view |-> NoView, imm |-> g.imm,
              excl |-> g.excl, aborted |-> FALSE, incref |-> 0]
        ELSE IF ~contiguous
        THEN [ret |-> -1, err |-> NotContiguous, view |-> got, imm |-> g.imm,
              excl |-> g.excl, aborted |-> FALSE, incref |-> 1]
        ELSE [ret |-> 0, err |-> NoError, view |-> got, imm |-> g.imm,
              excl |-> g.excl, aborted |-> FALSE, incref |-> 1]

\* The body shared by the two FromObject functions: tp_alloc, PyObject_GetBuffer
\* with the wrapper's flag, the contiguity check, and on either failure the
\* Py_DECREF(self) that runs the wrapper's dealloc.
WrapperFromObject(kind, flags, contiguous, imm, excl) ==
    LET g == testownedbuf_getbuffer(imm, excl, flags)
        got == [kind |-> kind, obj |-> TRUE, readonly |-> g.readonly]
    IN  IF g.ret < 0
        THEN LET d == WrapperDealloc(kind, NoView, g.imm, g.excl)
             IN  [ret |-> -1, err |-> g.err, view |-> NoView, imm |-> d.imm,
                  excl |-> d.excl, aborted |-> d.aborted, incref |-> 0 - d.decref]
        ELSE IF ~contiguous
        THEN LET r == PyBuffer_Release(got, g.imm, g.excl)
                 d == IF r.aborted THEN r
                      ELSE WrapperDealloc(kind, r.view, r.imm, r.excl)
             IN  [ret |-> -1, err |-> NotContiguous, view |-> NoView, imm |-> d.imm,
                  excl |-> d.excl, aborted |-> r.aborted \/ d.aborted,
                  incref |-> 1 - r.decref - (IF r.aborted THEN 0 ELSE d.decref)]
        ELSE [ret |-> 0, err |-> NoError, view |-> got, imm |-> g.imm,
              excl |-> g.excl, aborted |-> FALSE, incref |-> 1]

testSimpleImmutableViewObject_FromObject(contiguous, imm, excl) ==
    WrapperFromObject("immview", {PyBUF_IMMUTABLE}, contiguous, imm, excl)

\* Variant of the mutable wrapper: PyBUF_IMMUTABLE passed at line 235.
mutable_fromobject_asks_immutable(contiguous, imm, excl) ==
    WrapperFromObject("mutview", {PyBUF_IMMUTABLE}, contiguous, imm, excl)

testSimpleMutableViewObject_FromObject(contiguous, imm, excl) ==
    WrapperFromObject("mutview", {PyBUF_EXCLUSIVE}, contiguous, imm, excl)

\* The two __bytes__ methods: a copy of view.len bytes starting at view.buf,
\* which is the owner's storage.
testSimpleImmutableViewObject___bytes__(b, len) ==
    SubSeq(b, 1, len)

testSimpleMutableViewObject___bytes__(b, len) ==
    SubSeq(b, 1, len)

\* Variants of __setitem__.
\* The store made one byte too far.
setitem_writes_next_byte(b, len, index, value) ==
    IF index < 0 \/ index >= len
    THEN [ret |-> -1, err |-> OutOfRange, buf |-> b]
    ELSE [ret |-> 0, err |-> NoError,
          buf |-> [i \in 1..Len(b) |-> IF i = index + 2 THEN value ELSE b[i]]]

\* The upper bound tested with > instead of >=; the stray store at
\* buf[len] falls outside the storage.
setitem_accepts_len(b, len, index, value) ==
    IF index < 0 \/ index > len
    THEN [ret |-> -1, err |-> OutOfRange, buf |-> b]
    ELSE [ret |-> 0, err |-> NoError,
          buf |-> [i \in 1..Len(b) |-> IF i = index + 1 THEN value ELSE b[i]]]

\* testSimpleMutableViewObject___setitem__: the storage after the call.
testSimpleMutableViewObject___setitem__(b, len, index, value) ==
    IF index < 0 \/ index >= len
    THEN [ret |-> -1, err |-> OutOfRange, buf |-> b]
    ELSE [ret |-> 0, err |-> NoError, buf |-> [b EXCEPT ![index + 1] = value]]

\* ---------------------------------------------------------------- actions
Init ==
    /\ immutable_references = 0
    /\ exclusively_exported = 0
    /\ buf = [i \in 1..BufLen |-> 0]
    /\ ob_refcnt = 1
    /\ owner = "alive"
    /\ ownerRef = TRUE
    /\ views = [s \in Slots |-> NoView]
    /\ dealloc_diag = FALSE
    /\ aborted = FALSE
    /\ last = [op |-> "new", flags |-> {}, ret |-> 0, err |-> NoError,
               imm0 |-> 0, excl0 |-> 0, slot |-> 0, invoked |-> FALSE,
               arg |-> <<>>]
    /\ frames = [s \in Slots |-> NoFrame]

Running == ~aborted /\ owner = "alive"

\* The owner's reference count becomes n with the counters imm and excl:
\* at zero tp_dealloc runs.
SetRefcnt(n, imm, excl) ==
    /\ ob_refcnt' = n
    /\ IF n = 0
       THEN LET d == testownedbuf_dealloc(imm, excl)
            IN  /\ owner' = IF d.freed THEN "freed" ELSE owner
                /\ dealloc_diag' = d.diag
       ELSE UNCHANGED <<owner, dealloc_diag>>

\* testOwnedBuf(): a new owner once the previous one is gone.
OwnerNew ==
    /\ UNCHANGED frames
    /\ ~aborted
    /\ owner = "freed"
    /\ \E mem_ok \in BOOLEAN :
        IF mem_ok
        THEN /\ immutable_references' = 0
             /\ exclusively_exported' = 0
             /\ buf' = [i \in 1..BufLen |-> 0]
             /\ ob_refcnt' = 1
             /\ owner' = "alive"
             /\ ownerRef' = TRUE
             /\ dealloc_diag' = FALSE
             /\ last' = [op |-> "new", flags |-> {}, ret |-> 0, err |-> NoError,
                         imm0 |-> 0, excl0 |-> 0, slot |-> 0, invoked |-> FALSE,
                         arg |-> <<>>]
             /\ UNCHANGED <<views, aborted>>
        ELSE /\ last' = Call("new", {}, -1, NoMemory, 0, FALSE)
             /\ UNCHANGED <<immutable_references, exclusively_exported, buf,
                            ob_refcnt, owner, ownerRef, views, dealloc_diag, aborted>>

\* The client drops its reference to the owner.
OwnerDecref ==
    /\ UNCHANGED frames
    /\ Running
    /\ ownerRef
    /\ ownerRef' = FALSE
    /\ SetRefcnt(ob_refcnt - 1, immutable_references, exclusively_exported)
    /\ last' = Call("decref", {}, 0, NoError, 0, FALSE)
    /\ UNCHANGED <<immutable_references, exclusively_exported, buf, views, aborted>>

\* PyObject_GetBuffer(owner, &view, flags) by a C consumer, any flags.
GetBuffer ==
    /\ UNCHANGED frames
    /\ Running
    /\ ownerRef
    /\ immutable_references < MaxRefs
    /\ \E s \in Slots, flags \in AllFlags :
        /\ views[s].kind = "raw"
        /\ ~views[s].obj
        /\ LET g == testownedbuf_getbuffer(immutable_references,
                                           exclusively_exported, flags)
           IN  /\ immutable_references' = g.imm
               /\ exclusively_exported' = g.excl
               /\ IF g.ret = 0
                  THEN /\ views' = [views EXCEPT ![s] =
                              [kind |-> "raw", obj |-> TRUE, readonly |-> g.readonly]]
                       /\ ob_refcnt' = ob_refcnt + 1
                  ELSE UNCHANGED <<views, ob_refcnt>>
               /\ last' = Call("getbuffer", flags, g.ret, g.err, s, TRUE)
    /\ UNCHANGED <<buf, owner, ownerRef, dealloc_diag, aborted>>

\* PyBuffer_Release(&view) by a C consumer, on a view it holds or has
\* already released.
ReleaseBuffer ==
    /\ UNCHANGED frames
    /\ Running
    /\ \E s \in Slots :
        /\ views[s].kind = "raw"
        /\ LET r == PyBuffer_Release(views[s], immutable_references,
                                     exclusively_exported)
           IN  /\ immutable_references' = r.imm
               /\ exclusively_exported' = r.excl
               /\ aborted' = r.aborted
               /\ views' = [views EXCEPT ![s] = IF r.aborted THEN @ ELSE r.view]
               /\ SetRefcnt(ob_refcnt - r.decref, r.imm, r.excl)
               /\ last' = Call("release", {}, 0, NoError, s, views[s].obj)
    /\ UNCHANGED <<buf, ownerRef>>

\* testSimpleImmutableView(owner) / testSimpleMutableView(owner).
WrapperNew(s, kind, w, flags) ==
    /\ immutable_references' = w.imm
    /\ exclusively_exported' = w.excl
    /\ aborted' = w.aborted
    /\ views' = [views EXCEPT ![s] = w.view]
    /\ ob_refcnt' = ob_refcnt + w.incref
    /\ last' = Call(kind, flags, w.ret, w.err, s, TRUE)
    /\ UNCHANGED <<buf, owner, ownerRef, dealloc_diag>>

ImmutableViewNew ==
    /\ UNCHANGED frames
    /\ Running
    /\ ownerRef
    /\ immutable_references < MaxRefs
    /\ \E s \in Slots, contiguous \in BOOLEAN :
        /\ views[s].kind = "raw"
        /\ ~views[s].obj
        /\ WrapperNew(s, "immview_new",
               testSimpleImmutableViewObject_FromObject(contiguous,
                   immutable_references, exclusively_exported),
               {PyBUF_IMMUTABLE})

MutableViewNew ==
    /\ UNCHANGED frames
    /\ Running
    /\ ownerRef
    /\ \E s \in Slots, contiguous \in BOOLEAN :
        /\ views[s].kind = "raw"
        /\ ~views[s].obj
        /\ WrapperNew(s, "mutview_new",
               testSimpleMutableViewObject_FromObject(contiguous,
                   immutable_references, exclusively_exported),
               {PyBUF_EXCLUSIVE})

\* The last reference to a wrapper goes away: its tp_dealloc runs.
ViewDealloc ==
    /\ UNCHANGED frames
    /\ Running
    /\ \E s \in Slots :
        /\ views[s].kind \in {"immview", "mutview"}
        /\ LET d == WrapperDealloc(views[s].kind, views[s], immutable_references,
                                   exclusively_exported)
           IN  /\ immutable_references' = d.imm
               /\ exclusively_exported' = d.excl
               /\ aborted' = d.aborted
               /\ views' = [views EXCEPT ![s] = IF d.aborted THEN @ ELSE NoView]
               /\ SetRefcnt(ob_refcnt - d.decref, d.imm, d.excl)
               /\ last' = Call("view_dealloc", {}, 0, NoError, s, views[s].obj)
    /\ UNCHANGED <<buf, ownerRef>>

\* view.__setitem__(index, value) on a mutable wrapper.
SetItem ==
    /\ UNCHANGED frames
    /\ Running
    /\ \E s \in Slots, index \in -1..BufLen, value \in Bytes :
        /\ views[s].kind = "mutview"
        /\ LET w == testSimpleMutableViewObject___setitem__(buf, BufLen, index, value)
           IN  /\ buf' = w.buf
               /\ last' = CallArg("setitem", {}, w.ret, w.err, s, FALSE,
                                   <<index, value>>)
    /\ UNCHANGED <<immutable_references, exclusively_exported, ob_refcnt, owner,
                   ownerRef, views, dealloc_diag, aborted>>

\* bytes(view) on an immutable wrapper.
ImmutableViewBytes ==
    /\ UNCHANGED frames
    /\ Running
    /\ \E s \in Slots :
        /\ views[s].kind = "immview"
        /\ last' = CallArg("bytes", {}, 0, NoError, s, FALSE,
                           testSimpleImmutableViewObject___bytes__(buf, BufLen))
    /\ UNCHANGED <<immutable_references, exclusively_exported, buf, ob_refcnt,
                   owner, ownerRef, views, dealloc_diag, aborted>>

\* bytes(view) on a mutable wrapper.
MutableViewBytes ==
    /\ UNCHANGED frames
    /\ Running
    /\ \E s \in Slots :
        /\ views[s].kind = "mutview"
        /\ last' = CallArg("bytes", {}, 0, NoError, s, FALSE,
                           testSimpleMutableViewObject___bytes__(buf, BufLen))
    /\ UNCHANGED <<immutable_references, exclusively_exported, buf, ob_refcnt,
                   owner, ownerRef, views, dealloc_diag, aborted>>

Next ==
    \/ OwnerNew
    \/ OwnerDecref
    \/ GetBuffer
    \/ ReleaseBuffer
    \/ ImmutableViewNew
    \/ MutableViewNew
    \/ ViewDealloc
    \/ SetItem
    \/ ImmutableViewBytes
    \/ MutableViewBytes

Spec == Init /\ [][Next]_vars

\* The clients of the two wrapper types alone: owners and wrappers are
\* created and dropped, wrappers are read and written; nobody calls
\* PyObject_GetBuffer with other flags.
NextWrappers ==
    \/ OwnerNew
    \/ OwnerDecref
    \/ ImmutableViewNew
    \/ MutableViewNew
    \/ ViewDealloc
    \/ SetItem
    \/ ImmutableViewBytes
    \/ MutableViewBytes

SpecWrappers == Init /\ [][NextWrappers]_vars

\* bf_releasebuffer called directly, without a view that PyBuffer_Release
\* would vouch for: a consumer releasing more often than it acquired.
RawRelease ==
    /\ UNCHANGED frames
    /\ Running
    /\ LET r == testownedbuf_releasebufffer(immutable_references,
                                            exclusively_exported)
       IN  /\ immutable_references' = r.imm
           /\ exclusively_exported' = r.excl
           /\ aborted' = r.aborted
           /\ last' = Call("rawrelease", {}, 0, NoError, 0, TRUE)
    /\ UNCHANGED <<buf, ob_refcnt, owner, ownerRef, views, dealloc_diag>>

NextRaw ==
    \/ Next
    \/ RawRelease

SpecRaw == Init /\ [][NextRaw]_vars

\* ------------------------------------------------- calls that interleave
\* Without a lock around them, getbuffer and releasebuffer run statement by
\* statement, and the statements of two threads interleave.  Thread t fills
\* and releases the Py_buffer views[t].
AllIdle == \A t \in Slots : frames[t].pc = "idle"

Goto(t, pc) == frames' = [frames EXCEPT ![t].pc = pc]

\* The call returns -1 with the error e.
TFail(t, e) ==
    /\ frames' = [frames EXCEPT ![t] = NoFrame]
    /\ last' = Call("getbuffer", frames[t].flags, -1, e, t, TRUE)

\* PyObject_GetBuffer(owner, &views[t], flags): lines 61-62.
TGetbufferCall ==
    /\ Running
    /\ ownerRef
    /\ immutable_references < MaxRefs
    /\ \E t \in Slots, flags \in SUBSET {PyBUF_EXCLUSIVE, PyBUF_IMMUTABLE} :
        /\ frames[t].pc = "idle"
        /\ views[t].kind = "raw"
        /\ ~views[t].obj
        /\ frames' = [frames EXCEPT ![t] = [pc |-> "l64", flags |-> flags]]
    /\ UNCHANGED <<immutable_references, exclusively_exported, buf, ob_refcnt,
                   owner, ownerRef, views, dealloc_diag, aborted, last>>

\* Lines 64-68.
TGetbuffer64 ==
    /\ Running
    /\ \E t \in Slots :
        /\ frames[t].pc = "l64"
        /\ IF exclusively_exported # 0
           THEN TFail(t, AlreadyExclusive)
           ELSE Goto(t, "l70") /\ UNCHANGED last
    /\ UNCHANGED <<immutable_references, exclusively_exported, buf, ob_refcnt,
                   owner, ownerRef, views, dealloc_diag, aborted>>

\* Lines 70-74.
TGetbuffer70 ==
    /\ Running
    /\ \E t \in Slots :
        /\ frames[t].pc = "l70"
        /\ IF PyBUF_EXCLUSIVE \in frames[t].flags /\ immutable_references > 0
           THEN TFail(t, ConflictingExclusive)
           ELSE Goto(t, "l76") /\ UNCHANGED last
    /\ UNCHANGED <<immutable_references, exclusively_exported, buf, ob_refcnt,
                   owner, ownerRef, views, dealloc_diag, aborted>>

\* Lines 76-80.
TGetbuffer76 ==
    /\ Running
    /\ \E t \in Slots :
        /\ frames[t].pc = "l76"
        /\ IF (PyBUF_EXCLUSIVE \in frames[t].flags) <=>
                 (PyBUF_IMMUTABLE \in frames[t].flags)
           THEN TFail(t, InvalidMode)
           ELSE Goto(t, "l83") /\ UNCHANGED last
    /\ UNCHANGED <<immutable_references, exclusively_exported, buf, ob_refcnt,
                   owner, ownerRef, views, dealloc_diag, aborted>>

\* Lines 82-85.
TGetbuffer83 ==
    /\ Running
    /\ \E t \in Slots :
        /\ frames[t].pc = "l83"
        /\ exclusively_exported' =
              IF PyBUF_EXCLUSIVE \in frames[t].flags THEN 1 ELSE exclusively_exported
        /\ Goto(t, "l86")
    /\ UNCHANGED <<immutable_references, buf, ob_refcnt, owner, ownerRef, views,
                   dealloc_diag, aborted, last>>

\* Lines 86-88.
TGetbuffer86 ==
    /\ Running
    /\ \E t \in Slots :
        /\ frames[t].pc = "l86"
        /\ immutable_references' =
              IF PyBUF_IMMUTABLE \in frames[t].flags
              THEN immutable_references + 1
              ELSE immutable_references
        /\ Goto(t, "l89")
    /\ UNCHANGED <<exclusively_exported, buf, ob_refcnt, owner, ownerRef, views,
                   dealloc_diag, aborted, last>>

\* Line 89: the view is filled and the call returns.
TGetbuffer89 ==
    /\ Running
    /\ \E t \in Slots :
        /\ frames[t].pc = "l89"
        /\ LET readonly == IF PyBUF_EXCLUSIVE \in frames[t].flags THEN 0 ELSE 1
               fill == PyBuffer_FillInfo(readonly, frames[t].flags)
           IN  /\ IF fill.ret = 0
                  THEN /\ views' = [views EXCEPT ![t] =
                              [kind |-> "raw", obj |-> TRUE, readonly |-> readonly]]
                       /\ ob_refcnt' = ob_refcnt + 1
                  ELSE UNCHANGED <<views, ob_refcnt>>
               /\ last' = Call("getbuffer", frames[t].flags, fill.ret, fill.err,
                               t, TRUE)
        /\ frames' = [frames EXCEPT ![t] = NoFrame]
    /\ UNCHANGED <<immutable_references, exclusively_exported, buf, owner,
                   ownerRef, dealloc_diag, aborted>>

\* PyBuffer_Release(&views[t]) on a live view: releasebuffer is entered.
TReleaseCall ==
    /\ Running
    /\ \E t \in Slots :
        /\ frames[t].pc = "idle"
        /\ views[t].obj
        /\ Goto(t, "l96")
    /\ UNCHANGED <<immutable_references, exclusively_exported, buf, ob_refcnt,
                   owner, ownerRef, views, dealloc_diag, aborted, last>>

\* Line 96.
TRelease96 ==
    /\ Running
    /\ \E t \in Slots :
        /\ frames[t].pc = "l96"
        /\ IF ~NDEBUG /\ ((exclusively_exported # 0) <=> (immutable_references > 0))
           THEN aborted' = TRUE /\ UNCHANGED frames
           ELSE Goto(t, "l97") /\ UNCHANGED aborted
    /\ UNCHANGED <<immutable_references, exclusively_exported, buf, ob_refcnt,
                   owner, ownerRef, views, dealloc_diag, last>>

\* Lines 97-99.
TRelease97 ==
    /\ Running
    /\ \E t \in Slots :
        /\ frames[t].pc = "l97"
        /\ exclusively_exported' = IF exclusively_exported # 0 THEN 0
                                   ELSE exclusively_exported
        /\ Goto(t, "l100")
    /\ UNCHANGED <<immutable_references, buf, ob_refcnt, owner, ownerRef, views,
                   dealloc_diag, aborted, last>>

\* Lines 100-102, and the return into PyBuffer_Release, which clears
\* view.obj and drops the reference.
TRelease100 ==
    /\ Running
    /\ \E t \in Slots :
        /\ frames[t].pc = "l100"
        /\ immutable_references' = IF immutable_references > 0
                                   THEN immutable_references - 1
                                   ELSE immutable_references
        /\ views' = [views EXCEPT ![t].obj = FALSE]
        /\ SetRefcnt(ob_refcnt - 1, immutable_references', exclusively_exported)
        /\ last' = Call("release", {}, 0, NoError, t, TRUE)
        /\ frames' = [frames EXCEPT ![t] = NoFrame]
    /\ UNCHANGED <<exclusively_exported, buf, ownerRef, aborted>>

NextThreads ==
    \/ TGetbufferCall
    \/ TGetbuffer64
    \/ TGetbuffer70
    \/ TGetbuffer76
    \/ TGetbuffer83
    \/ TGetbuffer86
    \/ TGetbuffer89
    \/ TReleaseCall
    \/ TRelease96
    \/ TRelease97
    \/ TRelease100

SpecThreads == Init /\ [][NextThreads]_vars

\* ------------------------------------------------------------ properties
Idle(imm, excl) == imm = 0 /\ excl = 0
AcquireOps == {"getbuffer", "immview_new", "mutview_new"}
ReleaseOps == {"release", "view_dealloc"}
ModeFlags(flags) == flags \cap {PyBUF_EXCLUSIVE, PyBUF_IMMUTABLE}
CountersKept ==
    /\ immutable_references = last.imm0
    /\ exclusively_exported = last.excl0
LiveViews(readonly) == {s \in Slots : views[s].obj /\ views[s].readonly = readonly}

\* C1 (mutual exclusion, P1): whatever getbuffer calls (any flags) and
\* releases by live views have happened, immutable_references > 0 and
\* exclusively_exported are never both true.
C1_MutualExclusion ==
    ~(immutable_references > 0 /\ exclusively_exported # 0)

\* An immutable request arrived while the exclusive export was live and the
\* owner is still exclusive.
C1_Witness ==
    /\ last.op = "getbuffer"
    /\ PyBUF_IMMUTABLE \in last.flags
    /\ last.excl0 = 1
    /\ exclusively_exported = 1
    /\ immutable_references = 0

\* C2 (the five transitions): every state is Idle, Shared(n) or Exclusive,
\* and every step that changes the counters of a live owner is an immutable
\* acquire adding one reader with no exclusive export, a release removing
\* one reader, an exclusive acquire from Idle, or the release of the
\* exclusive export; so no step leads from Shared(n) to Exclusive or from
\* Exclusive to Shared(m).
C2_Step ==
    LET i == immutable_references
        e == exclusively_exported
        i1 == immutable_references'
        e1 == exclusively_exported'
        op == last'.op
        mode == ModeFlags(last'.flags)
        Shape(n, x) == (x = 0 /\ n >= 0) \/ (x = 1 /\ n = 0)
    IN  /\ Shape(i, e)
        /\ Shape(i1, e1)
        /\ (owner = "alive" /\ <<i1, e1>> # <<i, e>>) =>
              \/ op \in AcquireOps /\ mode = {PyBUF_IMMUTABLE}
                    /\ e = 0 /\ e1 = 0 /\ i1 = i + 1
              \/ op \in ReleaseOps /\ e = 0 /\ e1 = 0 /\ i >= 1 /\ i1 = i - 1
              \/ op \in AcquireOps /\ mode = {PyBUF_EXCLUSIVE}
                    /\ i = 0 /\ e = 0 /\ i1 = 0 /\ e1 = 1
              \/ op \in ReleaseOps /\ i = 0 /\ e = 1 /\ i1 = 0 /\ e1 = 0

C3_AlreadyExclusive ==
    (last.op \in AcquireOps /\ last.excl0 # 0) =>
        /\ last.ret = -1
        /\ last.err = AlreadyExclusive
        /\ CountersKept

\* A request with neither mode flag was refused during an exclusive export.
C3_Witness ==
    /\ last.op = "getbuffer"
    /\ last.excl0 = 1
    /\ ModeFlags(last.flags) = {}
    /\ last.err = AlreadyExclusive

\* C4: in Shared(n), n >= 1, an exclusive acquire fails with
\* ConflictingExclusive and changes neither counter.
C4_ConflictingExclusive ==
    (/\ last.op \in AcquireOps
     /\ last.excl0 = 0
     /\ last.imm0 >= 1
     /\ ModeFlags(last.flags) = {PyBUF_EXCLUSIVE}) =>
        /\ last.ret = -1
        /\ last.err = ConflictingExclusive
        /\ CountersKept

\* A mutable wrapper was asked for while two readers were counted.
C4_Witness ==
    /\ last.op = "mutview_new"
    /\ last.imm0 = 2
    /\ last.err = ConflictingExclusive
    /\ immutable_references = 2

\* C5 as stated: with no exclusive export live, a request with neither or
\* both mode flags fails with InvalidMode and changes neither counter.
C5_InvalidMode_AsStated ==
    (/\ last.op \in AcquireOps
     /\ last.excl0 = 0
     /\ ModeFlags(last.flags) \in {{}, {PyBUF_EXCLUSIVE, PyBUF_IMMUTABLE}}) =>
        /\ last.ret = -1
        /\ last.err = InvalidMode
        /\ CountersKept

\* C5 as amended: with no exclusive export live, a request with neither or
\* both mode flags fails and changes neither counter; the error is
\* InvalidMode, except that a request with both flags made while
\* immutable_references > 0 fails with ConflictingExclusive.
C5_InvalidMode ==
    (/\ last.op \in AcquireOps
     /\ last.excl0 = 0
     /\ ModeFlags(last.flags) \in {{}, {PyBUF_EXCLUSIVE, PyBUF_IMMUTABLE}}) =>
        /\ last.ret = -1
        /\ last.err = IF PyBUF_EXCLUSIVE \in last.flags /\ last.imm0 > 0
                      THEN ConflictingExclusive
                      ELSE InvalidMode
        /\ CountersKept

\* Both flags were passed while a reader was counted.
C5_Witness ==
    /\ last.op = "getbuffer"
    /\ last.excl0 = 0
    /\ last.imm0 >= 1
    /\ ModeFlags(last.flags) = {PyBUF_EXCLUSIVE, PyBUF_IMMUTABLE}
    /\ last.ret = -1

\* C6: an acquire that returns -1, for whatever reason, has changed neither
\* counter and has left no view behind.
C6_FailedAcquireChangesNothing ==
    (last.op \in AcquireOps /\ last.ret = -1) =>
        /\ CountersKept
        /\ ~views[last.slot].obj

\* C7: immutable_references is the number of live immutable views,
\* exclusively_exported is set exactly when one exclusive view is live, and
\* there is never more than one.
C7_CountersTrackViews ==
    owner = "alive" =>
        /\ immutable_references = Cardinality(LiveViews(1))
        /\ (exclusively_exported # 0) <=> (Cardinality(LiveViews(0)) = 1)
        /\ Cardinality(LiveViews(0)) <= 1

\* C8 (non-negativity, P2): under any sequence of acquires and releases,
\* releases of an Idle owner included, immutable_references is never
\* negative, and a releasebuffer that runs on an Idle owner ends in the
\* assert's abort.
C8_NonNegative ==
    /\ immutable_references >= 0
    /\ (/\ last.op \in ReleaseOps \cup {"rawrelease"}
        /\ last.invoked
        /\ Idle(last.imm0, last.excl0)) => aborted

\* releasebuffer ran on an Idle owner.
C8_Witness ==
    /\ last.op = "rawrelease"
    /\ Idle(last.imm0, last.excl0)
    /\ aborted
    /\ immutable_references = 0

\* C9 (exactly-once release, P3): releasing a view that was already
\* released changes neither counter, and a wrapper construction that fails
\* the contiguity check (explicit release, then the release in dealloc)
\* leaves both counters as they were before it, without an abort.
C9_ExactlyOnceRelease ==
    /\ (last.op \in ReleaseOps /\ ~last.invoked) => CountersKept
    /\ (last.op \in {"immview_new", "mutview_new"} /\ last.err = NotContiguous) =>
          /\ ~aborted
          /\ CountersKept

\* An immutable wrapper failed the contiguity check while another reader
\* was counted, and that reader's count is still there.
C9_Witness ==
    /\ last.op = "immview_new"
    /\ last.err = NotContiguous
    /\ last.imm0 = 1
    /\ immutable_references = 1

Zeros == [i \in 1..BufLen |-> 0]
NoLiveView == \A s \in Slots : ~views[s].obj

\* C11 (the owner outlives its views): whatever owners and wrappers the
\* client creates and drops, and in whatever order, the storage is never
\* freed while a view is live, and dealloc only ever runs on an Idle owner
\* (no diagnostic is printed).
C11_OwnerOutlivesViews ==
    owner = "freed" =>
        /\ NoLiveView
        /\ Idle(immutable_references, exclusively_exported)
        /\ ~dealloc_diag

\* The client had dropped the owner first; the owner was freed by the
\* dealloc of its last wrapper.
C11_Witness ==
    /\ owner = "freed"
    /\ last.op = "view_dealloc"
    /\ last.invoked
    /\ ~ownerRef

\* C12 (unbounded readers): with no exclusive export live, an immutable
\* acquire succeeds however many readers there are, adds exactly one to
\* immutable_references, leaves exclusively_exported clear and yields a
\* read-only view.
C12_ImmutableAlwaysGranted ==
    /\ (last.op = "getbuffer" /\ last.flags = {PyBUF_IMMUTABLE} /\ last.excl0 = 0) =>
          /\ last.ret = 0
          /\ immutable_references = last.imm0 + 1
          /\ exclusively_exported = 0
          /\ views[last.slot] = [kind |-> "raw", obj |-> TRUE, readonly |-> 1]
    /\ (last.op = "immview_new" /\ last.excl0 = 0 /\ last.err # NotContiguous) =>
          /\ last.ret = 0
          /\ immutable_references = last.imm0 + 1
          /\ exclusively_exported = 0
          /\ views[last.slot] = [kind |-> "immview", obj |-> TRUE, readonly |-> 1]

\* A second reader was granted while the first was live.
C12_Witness ==
    /\ last.op = "immview_new"
    /\ last.ret = 0
    /\ last.imm0 >= 1
    /\ Cardinality(LiveViews(1)) = 2

\* C13 (writes persist): the storage starts zeroed; a byte changes only by
\* a successful __setitem__ at its index, to the value written (or with a
\* new, zeroed owner), so acquire and release alter nothing; and __bytes__
\* returns the storage as it is.
C13_Step ==
    /\ \A i \in 1..BufLen : buf'[i] # buf[i] =>
          \/ last'.op = "new" /\ buf' = Zeros
          \/ /\ last'.op = "setitem"
             /\ last'.ret = 0
             /\ last'.arg = <<i - 1, buf'[i]>>
    /\ last'.op = "bytes" => last'.arg = buf'
    /\ (last'.op = "new" /\ last'.ret = 0) => buf' = Zeros

C13_WritesPersist == buf = Zeros /\ [][C13_Step]_vars

\* A byte written through a mutable wrapper, since released, was read back
\* through an immutable wrapper.
C13_Witness ==
    /\ last.op = "bytes"
    /\ views[last.slot].kind = "immview"
    /\ last.arg[2] = 1
    /\ last.arg[1] = 0

\* C14 (bounds-checked write): a __setitem__ with index < 0 or
\* index >= length fails with the IndexError and changes no byte; one with
\* 0 <= index < length changes the byte at that index to the value and no
\* other byte; neither touches the counters.
C14_Step ==
    (last'.op = "setitem" /\ last' # last) =>
        LET index == last'.arg[1]
            value == last'.arg[2]
        IN  /\ immutable_references' = immutable_references
            /\ exclusively_exported' = exclusively_exported
            /\ IF index < 0 \/ index >= BufLen
               THEN /\ last'.ret = -1
                    /\ last'.err = OutOfRange
                    /\ buf' = buf
               ELSE /\ last'.ret = 0
                    /\ buf' = [i \in 1..BufLen |->
                                  IF i = index + 1 THEN value ELSE buf[i]]

C14_BoundsCheckedWrite == [][C14_Step]_vars

\* A write at index = length was refused and an earlier write is intact.
C14_Witness ==
    /\ last.op = "setitem"
    /\ last.arg[1] = BufLen
    /\ last.err = OutOfRange
    /\ buf # Zeros

\* C15 (all-or-nothing construction): when the construction of a wrapper
\* fails, in the acquire or in the contiguity check, no wrapper holding a
\* view is left and both counters are what they were before the attempt.
C15_WrapperAllOrNothing ==
    (last.op \in {"immview_new", "mutview_new"} /\ last.ret = -1) =>
        /\ ~aborted
        /\ views[last.slot] = NoView
        /\ CountersKept

\* A mutable wrapper failed the contiguity check on an Idle owner.
C15_Witness ==
    /\ last.op = "mutview_new"
    /\ last.err = NotContiguous
    /\ Idle(immutable_references, exclusively_exported)

\* C16 (atomicity under threads): when the statements of concurrent
\* getbuffer and releasebuffer calls interleave, there are never two live
\* exclusive views, never an exclusive view beside a read-only one, and
\* whenever no call is in progress the counters agree with the live views.
C16_AtomicUnderThreads ==
    /\ Cardinality(LiveViews(0)) <= 1
    /\ ~(LiveViews(0) # {} /\ LiveViews(1) # {})
    /\ AllIdle =>
          /\ immutable_references = Cardinality(LiveViews(1))
          /\ (exclusively_exported # 0) <=> (LiveViews(0) # {})

\* C17 (release infers the mode): the release of a live view does what the
\* mode-tagged release of its own mode would do: for a read-only view the
\* counter goes down by one and the flag is untouched, for the exclusive
\* view the flag is cleared and the counter untouched; never both.
C17_Step ==
    (last'.op \in ReleaseOps /\ last'.invoked /\ views' # views) =>
        LET v == views[last'.slot]
        IN  /\ ~aborted'
            /\ IF v.readonly = 1
               THEN /\ immutable_references' = immutable_references - 1
                    /\ exclusively_exported' = exclusively_exported
               ELSE /\ exclusively_exported = 1
                    /\ exclusively_exported' = 0
                    /\ immutable_references' = immutable_references

C17_ReleaseByMode == [][C17_Step]_vars

\* One of two readers was released.
C17_Witness ==
    /\ last.op \in ReleaseOps
    /\ last.invoked
    /\ last.imm0 = 2
    /\ immutable_references = 1
    /\ Cardinality(LiveViews(1)) = 1

\* C18 (readers see a frozen buffer): the storage of an owner changes only
\* in a __setitem__ through a view that is not read-only, made while the
\* owner is Exclusive and no read-only view is live.
C18_Step ==
    (buf' # buf /\ last'.op # "new") =>
        /\ last'.op = "setitem"
        /\ views[last'.slot].obj
        /\ views[last'.slot].readonly = 0
        /\ exclusively_exported = 1
        /\ immutable_references = 0
        /\ LiveViews(1) = {}

C18_FrozenForReaders == [][C18_Step]_vars

\* A byte was written while the owner was Exclusive.
C18_Witness ==
    /\ last.op = "setitem"
    /\ last.ret = 0
    /\ buf[last.arg[1] + 1] = 1
    /\ exclusively_exported = 1

\* C19 (the assert of release): whenever releasebuffer runs for a live
\* view, exactly one of exclusively_exported and immutable_references > 0
\* holds at its entry, so the assert never fires.
C19_ReleaseAssertHolds ==
    /\ ~aborted
    /\ (last.op \in ReleaseOps /\ last.invoked) =>
          ((last.excl0 # 0) <=> ~(last.imm0 > 0))

\* The dealloc of an immutable wrapper released its view.
C19_Witness ==
    /\ last.op = "view_dealloc"
    /\ last.invoked
    /\ last.imm0 >= 1
    /\ last.excl0 = 0
    /\ ~aborted

\* C20 (return to Idle): once every view has been released the owner is
\* Idle, so that an exclusive acquire succeeds again, and an owner freed
\* after that was freed without the diagnostic.
C20_AllReleasedMeansIdle ==
    NoLiveView =>
        /\ Idle(immutable_references, exclusively_exported)
        /\ owner = "freed" => ~dealloc_diag

====
